---- MODULE Spec2Model ----
(***************************************************************************)
(* State-machine model of app.py: the yt-dlp front end.  The model covers  *)
(* the three subprocess helpers (get_playlist_info, get_single_video_info, *)
(* download_video_yt_dlp) and the Streamlit script body that keeps the     *)
(* per-video job status in st.session_state.download_status.               *)
(***************************************************************************)
EXTENDS Integers, Sequences, FiniteSets, TLC

\* ------------------------------------------------------------------ bounds
MaxLines == 3        \* longest yt-dlp metadata output, in lines (SpecPlaylist)
MaxVideos == 2       \* longest metadata output in the interactive model (Spec)
MaxWrites == 3       \* most writes the download subprocess performs
PipeCap == 1         \* lines an OS pipe holds before the writer blocks

\* ----------------------------------------------------------- basic values
None == "None"                       \* Python's None (and its str())

\* dict.get(key, default): the default is used only when the key is absent
Get(d, key, default) == IF key \in DOMAIN d THEN d[key] ELSE default

\* URLs are sequences of tokens; "list=" is the token the classifier seeks
SingleUrl == <<"https://www.youtube.com/watch?v=", "v1">>
PlaylistUrl == <<"https://www.youtube.com/playlist?", "list=", "PL1">>
EmptyUrl == <<>>
Urls == {SingleUrl, PlaylistUrl}

\* Both regular expressions contain the literal "list=", so the function
\* returns exactly the value of its fallback, "list=" in url.
is_playlist(url) == \E i \in 1..Len(url) : url[i] = "list="

\* ------------------------------------------------- yt-dlp metadata output
\* One line of the tool's standard output:
\*   empty  - ""                         blank  - whitespace only
\*   bad    - text that is not JSON      scalar - JSON that is not an object
\*   object - a JSON object, data = its members
EmptyLine == [kind |-> "empty"]
BlankLine == [kind |-> "blank"]
BadLine == [kind |-> "bad"]
ScalarLine == [kind |-> "scalar"]
ObjectLine(data) == [kind |-> "object", data |-> data]

JsonMembers(hasId, id, hasTitle, hasIndex, idx) ==
    [k \in (IF hasId THEN {"id"} ELSE {}) \cup
           (IF hasTitle THEN {"title"} ELSE {}) \cup
           (IF hasIndex THEN {"playlist_index"} ELSE {}) |->
        CASE k = "id" -> <<id>>
          [] k = "title" -> <<"T">>
          [] k = "playlist_index" -> <<idx>>]

\* members are stored boxed (<<v>>) so that values of different JSON types
\* can live in one object; Member is video_data.get(key)
Member(video_data, key) ==
    IF key \in DOMAIN video_data THEN video_data[key][1] ELSE None

IsWhitespace(line) == line.kind \in {"empty", "blank"}

\* str.strip() followed by split('\n'): leading and trailing lines that hold
\* only whitespace disappear, interior ones stay
RECURSIVE LStripLines(_)
LStripLines(lines) ==
    IF lines = <<>> THEN <<>>
    ELSE IF IsWhitespace(Head(lines)) THEN LStripLines(Tail(lines))
    ELSE lines

RECURSIVE RStripLines(_)
RStripLines(lines) ==
    IF lines = <<>> THEN <<>>
    ELSE IF IsWhitespace(lines[Len(lines)])
         THEN RStripLines(SubSeq(lines, 1, Len(lines) - 1))
    ELSE lines

StripLines(lines) == RStripLines(LStripLines(lines))

UntitledTitle(n) == <<"Untitled Video", n>>

\* the fallback without the "+ 1" of line 61
actual_playlist_index_for_naming_zero_based(i, video_data) ==
    IF "playlist_index" \in DOMAIN video_data
    THEN video_data["playlist_index"][1]
    ELSE i

\* lines 59-61: playlist_index of the tool, else the enumeration index + 1
actual_playlist_index_for_naming(i, video_data) ==
    IF "playlist_index" \in DOMAIN video_data
    THEN Member(video_data, "playlist_index")
    ELSE i + 1

VideoUrl(id) == <<"https://www.youtube.com/watch?v=", id>>

\* lines 63-68: the record appended for the line with enumeration index i
PlaylistRecord(i, video_data) ==
    [id |-> Member(video_data, "id"),
     title |-> IF "title" \in DOMAIN video_data
               THEN video_data["title"]
               ELSE UntitledTitle(actual_playlist_index_for_naming(i, video_data)),
     url |-> VideoUrl(Member(video_data, "id")),
     filename_playlist_index |-> actual_playlist_index_for_naming(i, video_data)]

\* lines 53-70: enumerate() counts every line of the split output; empty
\* lines and lines that raise JSONDecodeError are skipped
RECURSIVE ParseFrom(_, _)
ParseFrom(lines, pos) ==
    IF pos > Len(lines) THEN <<>>
    ELSE (IF lines[pos].kind = "object"
          THEN <<PlaylistRecord(pos - 1, lines[pos].data)>>
          ELSE <<>>) \o ParseFrom(lines, pos + 1)

\* A subprocess outcome: TimeoutExpired, or exit with a return code and the
\* lines of standard output
TimedOut == [timeout |-> TRUE]
Exited(rc, lines) == [timeout |-> FALSE, returncode |-> rc, lines |-> lines]

\* lines 38-77
get_playlist_info(out) ==
    IF out.timeout THEN <<>>                              \* lines 72-74
    ELSE IF out.returncode # 0 THEN <<>>                    \* lines 42-46
    ELSE IF StripLines(out.lines) = <<>> THEN <<>>          \* lines 49-51
    ELSE IF \E p \in 1..Len(StripLines(out.lines)) :
                StripLines(out.lines)[p].kind = "scalar"
         THEN <<>>                                          \* .get on a non-dict: lines 75-77
    ELSE ParseFrom(StripLines(out.lines), 1)

\* lines 90-117: json.loads(stdout) accepts one JSON value surrounded by
\* whitespace; anything else raises JSONDecodeError, and a value that is not
\* an object makes .get raise (caught at lines 115-117).  The result is a
\* sequence: <<>> for None, <<record>> for a dictionary.
get_single_video_info(video_url, out) ==
    IF out.timeout THEN <<>>                                \* lines 109-111
    ELSE IF out.returncode # 0 THEN <<>>                    \* lines 94-98
    ELSE IF StripLines(out.lines) = <<>> THEN <<>>          \* lines 100-102
    ELSE IF Len(StripLines(out.lines)) # 1 THEN <<>>        \* lines 112-114
    ELSE IF StripLines(out.lines)[1].kind # "object" THEN <<>>
    ELSE << [id |-> Member(StripLines(out.lines)[1].data, "id"),
             title |-> IF "title" \in DOMAIN StripLines(out.lines)[1].data
                       THEN StripLines(out.lines)[1].data["title"]
                       ELSE <<"Untitled Video">>,
             url |-> video_url] >>

\* --------------------------------------------------- download subprocess
\* A line written to standard output: text surrounded (ws) or not by
\* whitespace; text "" is a line holding nothing else
OutLine(ws, text) == [ws |-> ws, text |-> text]
Paths == {"a", "b"}           \* file names the tool may print
Creatable == {"a"}            \* file names the tool may actually create
OutLines == {OutLine(FALSE, ""), OutLine(TRUE, "a")} \cup
            {OutLine(FALSE, path) : path \in Paths}
ErrLine == OutLine(FALSE, "E")

\* str.strip() of one line (line 165)
Strip(line) == line.text

NoProc == [state |-> "none", pending |-> <<>>, outOpen |-> FALSE,
           errOpen |-> FALSE, returncode |-> -1, writes |-> 0]
NewProc == [state |-> "running", pending |-> <<>>, outOpen |-> TRUE,
            errOpen |-> TRUE, returncode |-> -1, writes |-> 0]

\* what a subprocess helper reported to its caller: how it ended, whether the
\* subprocess it spawned is still running, and the value it returned
NoCall == [op |-> "none", outcome |-> "none", running |-> FALSE, value |-> None]
Call(op, outcome, running, value) ==
    [op |-> op, outcome |-> outcome, running |-> running, value |-> value]

\* ------------------------------------------------------------------ state
VARIABLES
    text,                \* current_url_input: the text widget's value
    url_input,           \* st.session_state.url_input
    videos_to_process,   \* st.session_state.videos_to_process
    download_status,     \* st.session_state.download_status
    files,               \* files present in DOWNLOAD_DIR
    dirExists,           \* os.path.exists(DOWNLOAD_DIR)
    pc,                  \* position of the script
    cur,                 \* 1-based position of the video the last run acted on
    proc,                \* the download subprocess
    printed,             \* the lines it has written to standard output
    outBuf,              \* its standard-output pipe
    errBuf,              \* its standard-error pipe
    stdout_lines,        \* local of download_video_yt_dlp, kept until the next run
    event,               \* the interaction that triggered the last script run
    lastCall,            \* the subprocess helper that returned last
    fetch_out            \* outcome of the metadata subprocess under test

vars == <<text, url_input, videos_to_process, download_status, files,
          dirExists, pc, cur, proc, printed, outBuf, errBuf, stdout_lines, event,
          lastCall, fetch_out>>

dlVars == <<proc, printed, outBuf, errBuf, stdout_lines>>

\* a script run starts with no download call in progress
NoDownload ==
    /\ proc' = NoProc
    /\ printed' = <<>>
    /\ outBuf' = <<>>
    /\ errBuf' = <<>>
    /\ stdout_lines' = <<>>

\* ------------------------------------------------------- job status store
Pending == [status |-> "pending"]
Processing == [status |-> "processing"]
Completed(path) == [status |-> "completed", path |-> path]
Failed == [status |-> "failed", path |-> "Server download failed."]

EmptyStatus == [k \in {} |-> Pending]

\* download_status[key] = value
SetStatus(store, key, value) ==
    [k \in DOMAIN store \cup {key} |-> IF k = key THEN value ELSE store[k]]

\* the f-string default of line 269
SynthKey(index) ==
    CASE index = 0 -> "video_0"
      [] index = 1 -> "video_1"
      [] index = 2 -> "video_2"
      [] OTHER -> "video_n"

\* line 269: video_data.get("id", f"video_{index}"), index 0-based
video_id(index, video_data) == Get(video_data, "id", SynthKey(index))

\* lines 281-282: download_status.get(video_id, {"status": "pending"})
StatusIn(store, key) == Get(store, key, Pending)

\* status of the i-th (1-based) video of a list under a store
VideoStatus(videos, store, i) ==
    StatusIn(store, video_id(i - 1, videos[i])).status

\* a Start Download button that is also drawn for failed videos
StartOffered_retry(status) == status \in {"pending", "failed"}

\* line 288: the Start Download button is drawn for pending videos only
StartOffered(status) == status = "pending"

\* line 306: the download runs for a video whose status is processing
DownloadDue(status) == status = "processing"

\* lines 268-324: the first video (1-based) at which the display loop ends
\* the script run, or 0; clicked is the video whose button was pressed
ActingIndex(videos, store, clicked) ==
    LET acting == {i \in 1..Len(videos) :
                      \/ i = clicked /\ StartOffered(VideoStatus(videos, store, i))
                      \/ DownloadDue(VideoStatus(videos, store, i))}
    IN IF acting = {} THEN 0
       ELSE CHOOSE i \in acting : \A j \in acting : i <= j

\* ---------------------------------------------------------- fetch handler
\* lines 234-235
FetchTriggered(fetchClicked, current_url_input) ==
    fetchClicked \/ (current_url_input # EmptyUrl /\ current_url_input # url_input)

\* lines 245-261: the working set after the handler ran on url with the
\* metadata subprocess ending as out
FetchedVideos(url, out) ==
    IF url = EmptyUrl THEN <<>>
    ELSE IF is_playlist(url) THEN get_playlist_info(out)
    ELSE get_single_video_info(url, out)

\* a fetch handler without line 239
StatusAfterFetch_keeps == download_status

\* line 239
StatusAfterFetch == EmptyStatus

\* lines 72-74 and 109-111 return without touching the subprocess, which
\* communicate() leaves running when it raises TimeoutExpired
FetchCall(url, out) ==
    IF url = EmptyUrl THEN NoCall
    ELSE Call(IF is_playlist(url) THEN "fetchPlaylist" ELSE "fetchSingle",
              IF out.timeout THEN "timeout" ELSE "returned",
              out.timeout, None)

\* ---------------------------------------------------------- clean handler
\* a clean handler without line 351
StatusAfterClean_keeps == download_status

\* line 351
StatusAfterClean == EmptyStatus

\* ------------------------------------------------------------- script run
\* One run of the script body (lines 232-354) up to the point where it ends,
\* reruns or calls download_video_yt_dlp.
\*   newText      value of the text widget      fetchClicked  fetch_button
\*   clicked      pressed Start button, or 0    cleanClicked  clean_dir
\*   out          outcome of the metadata subprocess, if one is spawned
\*   kept         files that os.unlink fails to delete, if cleaning
\*   listOk       os.listdir returns; if it raises, the script run ends there
ScriptRun(ev, newText, fetchClicked, clicked, cleanClicked, out, kept, listOk) ==
    LET fetch == FetchTriggered(fetchClicked, newText)
        url1 == IF fetch THEN newText ELSE url_input
        videos1 == IF fetch THEN FetchedVideos(newText, out) ELSE videos_to_process
        status1 == IF fetch THEN StatusAfterFetch ELSE download_status
        acting == ActingIndex(videos1, status1, clicked)
    IN /\ text' = newText
       /\ url_input' = url1
       /\ videos_to_process' = videos1
       /\ event' = ev
       /\ NoDownload
       /\ UNCHANGED <<dirExists, fetch_out>>
       /\ IF acting # 0 /\ DownloadDue(VideoStatus(videos1, status1, acting))
          THEN \* line 311: about to call download_video_yt_dlp
               /\ pc' = "dl_call"
               /\ cur' = acting
               /\ download_status' = status1
               /\ lastCall' = IF fetch THEN FetchCall(newText, out) ELSE NoCall
               /\ UNCHANGED files
          ELSE IF acting # 0
          THEN \* lines 290-291
               /\ pc' = "rerun"
               /\ cur' = acting
               /\ download_status' =
                     SetStatus(status1, video_id(acting - 1, videos1[acting]), Processing)
               /\ lastCall' = IF fetch THEN FetchCall(newText, out) ELSE NoCall
               /\ UNCHANGED files
          ELSE IF cleanClicked /\ dirExists /\ listOk
          THEN \* lines 332-352
               /\ pc' = "rerun"
               /\ cur' = 0
               /\ files' = kept
               /\ download_status' = StatusAfterClean
               /\ lastCall' = IF fetch THEN FetchCall(newText, out) ELSE NoCall
          ELSE \* the script reaches its last line
               /\ pc' = "idle"
               /\ cur' = 0
               /\ download_status' = status1
               /\ lastCall' = IF fetch THEN FetchCall(newText, out) ELSE NoCall
               /\ UNCHANGED files

\* lines of metadata output in the interactive model
AppLines ==
    {ObjectLine(JsonMembers(TRUE, "v1", TRUE, FALSE, 0)),
     ObjectLine(JsonMembers(FALSE, None, TRUE, FALSE, 0)),
     BadLine}

RECURSIVE SeqsUpTo(_, _)
SeqsUpTo(S, n) ==
    IF n = 0 THEN {<<>>}
    ELSE SeqsUpTo(S, n - 1) \cup
         {Append(q, x) : q \in {r \in SeqsUpTo(S, n - 1) : Len(r) = n - 1}, x \in S}

AppOutcomes ==
    {TimedOut} \cup {Exited(rc, lines) : rc \in {0, 1}, lines \in SeqsUpTo(AppLines, MaxVideos)}

NoOutcome == TimedOut

\* the user edits the URL text (line 232)
UserEditText(u) ==
    /\ pc = "idle"
    /\ u # text
    /\ \E out \in AppOutcomes :
          ScriptRun(IF FetchTriggered(FALSE, u) THEN "submit" ELSE "text",
                    u, FALSE, 0, FALSE, out, files, TRUE)

\* the user presses Fetch Video(s) Info (line 234)
UserClickFetch ==
    /\ pc = "idle"
    /\ \E out \in AppOutcomes :
          ScriptRun("fetch", text, TRUE, 0, FALSE, out, files, TRUE)

\* the user presses Start Download of the i-th video (line 289)
UserClickStart(i) ==
    /\ pc = "idle"
    /\ i \in 1..Len(videos_to_process)
    /\ StartOffered(VideoStatus(videos_to_process, download_status, i))
    /\ ScriptRun("start", text, FALSE, i, FALSE, NoOutcome, files, TRUE)

\* the user presses Clean Server Download Directory (line 331)
UserClickClean ==
    /\ pc = "idle"
    /\ \E kept \in SUBSET files, listOk \in BOOLEAN :
          /\ ~listOk => dirExists /\ kept = files
          /\ ScriptRun(IF listOk THEN "clean" ELSE "clean_raised",
                       text, FALSE, 0, TRUE, NoOutcome, kept, listOk)

\* st.experimental_rerun(): the script runs again with no widget pressed
Rerun ==
    /\ pc = "rerun"
    /\ ScriptRun("rerun", text, FALSE, 0, FALSE, NoOutcome, files, TRUE)

\* ------------------------------------------------- download_video_yt_dlp
\* os.path.exists of a printed file name
Exists(path, present) == path \in present

\* line 184 without the test of the return code
DownloadResult_any_exit_code(returncode, lines, present) ==
    IF lines # <<>>
    THEN IF Exists(lines[Len(lines)], present) THEN lines[Len(lines)] ELSE None
    ELSE None

\* lines 184-200: the value returned after process.wait() returned
DownloadResult(returncode, lines, present) ==
    IF returncode = 0 /\ lines # <<>>
    THEN IF Exists(lines[Len(lines)], present) THEN lines[Len(lines)] ELSE None
    ELSE None

\* line 316
DownloadSucceeded(path, present) == path # None /\ Exists(path, present)

\* lines 316-320: the caller records the result and reruns the script
Finish(path, outcome) ==
    /\ download_status' =
          SetStatus(download_status,
                    video_id(cur - 1, videos_to_process[cur]),
                    IF DownloadSucceeded(path, files) THEN Completed(path) ELSE Failed)
    /\ pc' = "rerun"
    /\ event' = "download"
    /\ lastCall' = Call("download", outcome, FALSE, path)
    /\ UNCHANGED <<text, url_input, videos_to_process, cur, printed, outBuf,
                   errBuf, stdout_lines, fetch_out>>

\* lines 124-158: create the directory, spawn yt-dlp
DlStart(mkdirOk, spawnOk) ==
    /\ pc = "dl_call"
    /\ IF ~dirExists /\ ~mkdirOk
       THEN \* lines 127-129
            /\ Finish(None, "error")
            /\ UNCHANGED <<files, dirExists, proc>>
       ELSE IF ~spawnOk
       THEN \* Popen raises: lines 208-210
            /\ Finish(None, "error")
            /\ dirExists' = TRUE
            /\ UNCHANGED <<files, proc>>
       ELSE /\ dirExists' = TRUE
            /\ proc' = NewProc
            /\ pc' = "dl_read_stdout"
            /\ UNCHANGED <<text, url_input, videos_to_process, download_status,
                           files, cur, printed, outBuf, errBuf, stdout_lines,
                           event, lastCall, fetch_out>>

appVars == <<text, url_input, videos_to_process, download_status, dirExists,
             cur, event, lastCall, fetch_out>>

\* lines 164-169: one readline() on standard output
DlReadStdout ==
    /\ pc = "dl_read_stdout"
    /\ IF outBuf # <<>>
       THEN /\ outBuf' = Tail(outBuf)
            /\ stdout_lines' = IF Strip(Head(outBuf)) # ""
                               THEN Append(stdout_lines, Strip(Head(outBuf)))
                               ELSE stdout_lines
            /\ pc' = pc
       ELSE /\ ~proc.outOpen          \* readline() returns '' at end of file
            /\ pc' = "dl_read_stderr"
            /\ UNCHANGED <<outBuf, stdout_lines>>
    /\ UNCHANGED <<appVars, files, proc, printed, errBuf>>

\* lines 172-177: one readline() on standard error (stderr_lines only feeds
\* the diagnostics and is not kept)
DlReadStderr ==
    /\ pc = "dl_read_stderr"
    /\ IF errBuf # <<>>
       THEN /\ errBuf' = Tail(errBuf)
            /\ pc' = pc
       ELSE /\ ~proc.errOpen
            /\ pc' = "dl_wait"
            /\ UNCHANGED errBuf
    /\ UNCHANGED <<appVars, files, proc, printed, outBuf, stdout_lines>>

\* line 179 returns, lines 181-200
DlWaitReturns ==
    /\ pc = "dl_wait"
    /\ proc.state = "exited"
    /\ Finish(DownloadResult(proc.returncode, stdout_lines, files),
              IF DownloadResult(proc.returncode, stdout_lines, files) = None
              THEN "none" ELSE "path")
    /\ UNCHANGED <<files, dirExists, proc>>

\* line 179 raises TimeoutExpired, lines 201-207: the subprocess is killed
DlWaitTimeout ==
    /\ pc = "dl_wait"
    /\ proc.state # "exited"
    /\ Finish(None, "timeout")
    /\ proc' = [proc EXCEPT !.state = "killed", !.outOpen = FALSE, !.errOpen = FALSE]
    /\ UNCHANGED <<files, dirExists>>

\* ------------------------------------------------------ yt-dlp, downloading
Buf(stream) == IF stream = "stdout" THEN outBuf ELSE errBuf
StreamOpen(stream) == IF stream = "stdout" THEN proc.outOpen ELSE proc.errOpen

PutLine(stream, line) ==
    /\ printed' = IF stream = "stdout" THEN Append(printed, line) ELSE printed
    /\ outBuf' = IF stream = "stdout" THEN Append(outBuf, line) ELSE outBuf
    /\ errBuf' = IF stream = "stderr" THEN Append(errBuf, line) ELSE errBuf

ChildRuns == pc \in {"dl_read_stdout", "dl_read_stderr", "dl_wait"} /\ proc.state = "running"

\* write(2) of one line: completes if the pipe has room, blocks otherwise
ChildWrite(stream, line) ==
    /\ ChildRuns
    /\ StreamOpen(stream)
    /\ proc.writes < MaxWrites
    /\ IF Len(Buf(stream)) < PipeCap
       THEN /\ PutLine(stream, line)
            /\ proc' = [proc EXCEPT !.writes = @ + 1]
       ELSE /\ proc' = [proc EXCEPT !.writes = @ + 1, !.state = "blocked",
                                    !.pending = <<stream, line>>]
            /\ UNCHANGED <<outBuf, errBuf, printed>>
    /\ UNCHANGED <<appVars, files, pc, stdout_lines>>

\* a blocked write completes once the reader has made room
ChildUnblock ==
    /\ proc.state = "blocked"
    /\ Len(Buf(proc.pending[1])) < PipeCap
    /\ PutLine(proc.pending[1], proc.pending[2])
    /\ proc' = [proc EXCEPT !.state = "running", !.pending = <<>>]
    /\ UNCHANGED <<appVars, files, pc, stdout_lines>>

\* close(2) of one of the two streams
ChildClose(stream) ==
    /\ ChildRuns
    /\ StreamOpen(stream)
    /\ proc' = IF stream = "stdout" THEN [proc EXCEPT !.outOpen = FALSE]
                                    ELSE [proc EXCEPT !.errOpen = FALSE]
    /\ UNCHANGED <<appVars, files, pc, printed, outBuf, errBuf, stdout_lines>>

\* exit(rc), having created the files in made
ChildExit(rc, made) ==
    /\ ChildRuns
    /\ proc' = [proc EXCEPT !.state = "exited", !.returncode = rc,
                            !.outOpen = FALSE, !.errOpen = FALSE]
    /\ files' = files \cup made
    /\ UNCHANGED <<appVars, pc, printed, outBuf, errBuf, stdout_lines>>

\* the tool stalls for good (a dead connection, a prompt nobody answers)
ChildHang ==
    /\ ChildRuns
    /\ proc' = [proc EXCEPT !.state = "hung"]
    /\ UNCHANGED <<appVars, files, pc, printed, outBuf, errBuf, stdout_lines>>

Caller ==
    \/ \E mkdirOk \in BOOLEAN, spawnOk \in BOOLEAN : DlStart(mkdirOk, spawnOk)
    \/ DlReadStdout
    \/ DlReadStderr
    \/ DlWaitReturns
    \/ DlWaitTimeout

Child ==
    \/ \E line \in OutLines : ChildWrite("stdout", line)
    \/ ChildWrite("stderr", ErrLine)
    \/ ChildUnblock
    \/ \E stream \in {"stdout", "stderr"} : ChildClose(stream)
    \/ \E rc \in {0, 1}, made \in SUBSET Creatable : ChildExit(rc, made)
    \/ ChildHang

User ==
    \/ \E u \in Urls \cup {EmptyUrl} : UserEditText(u)
    \/ UserClickFetch
    \/ \E i \in 1..MaxVideos : UserClickStart(i)
    \/ UserClickClean

\* ----------------------------------------------------------- specification
Init ==
    /\ text = EmptyUrl
    /\ url_input = EmptyUrl
    /\ videos_to_process = <<>>
    /\ download_status = EmptyStatus
    /\ files = {}
    /\ dirExists = FALSE
    /\ pc = "idle"
    /\ cur = 0
    /\ proc = NoProc
    /\ printed = <<>>
    /\ outBuf = <<>>
    /\ errBuf = <<>>
    /\ stdout_lines = <<>>
    /\ event = "init"
    /\ lastCall = NoCall
    /\ fetch_out = NoOutcome

Next == User \/ Rerun \/ Caller \/ Child

Spec == Init /\ [][Next]_vars

\* The operating system schedules the script and the subprocess, and the
\* wait of line 179 is timed; the user is free to stop clicking.
FairSpec ==
    /\ Spec
    /\ WF_vars(Rerun)
    /\ WF_vars(Caller)
    /\ WF_vars(Child)

\* ------------------------------------- get_playlist_info on its own inputs
TestLines ==
    {EmptyLine, BlankLine, BadLine, ScalarLine} \cup
    {ObjectLine(JsonMembers(hasId, "v1", hasTitle, hasIndex, 7)) :
        hasId \in BOOLEAN, hasTitle \in BOOLEAN, hasIndex \in BOOLEAN}

TestOutcomes ==
    {TimedOut} \cup {Exited(rc, lines) : rc \in {0, 1}, lines \in SeqsUpTo(TestLines, MaxLines)}

InitPlaylist ==
    /\ text = PlaylistUrl
    /\ url_input = PlaylistUrl
    /\ videos_to_process = <<>>
    /\ download_status = EmptyStatus
    /\ files = {}
    /\ dirExists = FALSE
    /\ pc = "fetch_call"
    /\ cur = 0
    /\ proc = NoProc
    /\ printed = <<>>
    /\ outBuf = <<>>
    /\ errBuf = <<>>
    /\ stdout_lines = <<>>
    /\ event = "fetch"
    /\ lastCall = NoCall
    /\ fetch_out \in TestOutcomes

\* line 247: videos = get_playlist_info(url), the subprocess ending as fetch_out
PlaylistCall ==
    /\ pc = "fetch_call"
    /\ videos_to_process' = get_playlist_info(fetch_out)
    /\ lastCall' = FetchCall(url_input, fetch_out)
    /\ pc' = "fetch_returned"
    /\ UNCHANGED <<text, url_input, download_status, files, dirExists, cur,
                   dlVars, event, fetch_out>>

SpecPlaylist == InitPlaylist /\ [][PlaylistCall]_vars

\* ------------------------------------------------------------- properties
StatusKeys == {"v1", None} \cup {SynthKey(i) : i \in 0..MaxVideos}

StatusOfVideo(i) == VideoStatus(videos_to_process, download_status, i)

ProcessingVideos == {i \in 1..Len(videos_to_process) : StatusOfVideo(i) = "processing"}

AllPending ==
    /\ \A k \in DOMAIN download_status : download_status[k].status = "pending"
    /\ \A i \in 1..Len(videos_to_process) : StatusOfVideo(i) = "pending"

InDownload == pc \in {"dl_call", "dl_read_stdout", "dl_read_stderr", "dl_wait"}

\* C1: the status of every key moves only pending -> processing (on a Start
\* click) and processing -> completed or failed (on the return of the
\* download); any other change is a full reset by the fetch or the clean
\* handler, which leaves every key pending.
C1_Lifecycle ==
    [][\A k \in StatusKeys :
          LET old == StatusIn(download_status, k).status
              new == StatusIn(download_status', k).status
          IN \/ old = new
             \/ old = "pending" /\ new = "processing" /\ event' = "start"
             \/ old = "processing" /\ new \in {"completed", "failed"}
                   /\ event' = "download"
             \/ download_status' = EmptyStatus
                   /\ event' \in {"submit", "fetch", "clean"}]_vars

\* a job went through the whole lifecycle and is now terminal
C1_Witness ==
    /\ event = "download"
    /\ \E k \in DOMAIN download_status :
          download_status[k].status \in {"completed", "failed"}

\* C2 as claimed: a download call that started always returns.
C2_NeverHangs == InDownload ~> (event = "download" /\ pc = "rerun")

\* C3 as claimed: the caller is never blocked reading one stream while the
\* subprocess is blocked writing the other.
CallerBlockedReading(stream) ==
    \/ stream = "stdout" /\ pc = "dl_read_stdout" /\ outBuf = <<>> /\ proc.outOpen
    \/ stream = "stderr" /\ pc = "dl_read_stderr" /\ errBuf = <<>> /\ proc.errOpen

ChildBlockedWriting(stream) ==
    proc.state = "blocked" /\ proc.pending[1] = stream

C3_NoPipeDeadlock ==
    /\ ~(CallerBlockedReading("stdout") /\ ChildBlockedWriting("stderr"))
    /\ ~(CallerBlockedReading("stderr") /\ ChildBlockedWriting("stdout"))

\* the lines of standard output that hold something besides whitespace
NonEmptyPrinted == SelectSeq(printed, LAMBDA l : l.text # "")

NormalExit == event = "download" /\ proc.state = "exited"

DownloadedKey == video_id(cur - 1, videos_to_process[cur])

\* C4 as claimed: after a normal exit a path is returned iff the exit code is
\* zero, a non-empty line was printed and the LAST PRINTED line names an
\* existing file; the status is completed with that path exactly then.
C4_LastPrintedLine ==
    NormalExit =>
        LET ok == /\ proc.returncode = 0
                  /\ NonEmptyPrinted # <<>>
                  /\ Exists(Strip(printed[Len(printed)]), files)
        IN /\ (lastCall.value # None) <=> ok
           /\ ok => lastCall.value = Strip(printed[Len(printed)])
           /\ download_status[DownloadedKey] =
                 IF ok THEN Completed(lastCall.value) ELSE Failed

\* C4 amended: ... and the last line that is NOT EMPTY, stripped of the
\* whitespace around it, names an existing file.
C4_LastNonEmptyLine ==
    NormalExit =>
        LET last == Strip(NonEmptyPrinted[Len(NonEmptyPrinted)])
            ok == /\ proc.returncode = 0
                  /\ NonEmptyPrinted # <<>>
                  /\ Exists(last, files)
        IN /\ (lastCall.value # None) <=> ok
           /\ ok => lastCall.value = last
           /\ download_status[DownloadedKey] =
                 IF ok THEN Completed(lastCall.value) ELSE Failed

\* a path was returned although the last printed line is empty
C4_Witness ==
    /\ NormalExit
    /\ lastCall.value # None
    /\ printed[Len(printed)].text = ""
    /\ download_status[DownloadedKey].status = "completed"

\* C5 as claimed: starting or finishing the download of one video leaves the
\* status of every other video of the working set unchanged.
C5_OwnEntry ==
    [][event' \in {"start", "download"} =>
          \A j \in 1..Len(videos_to_process) :
             j # cur' =>
                VideoStatus(videos_to_process', download_status', j) = StatusOfVideo(j)]_vars

\* the k-th (1-based) well-formed line of a split output
ObjectPositions(lines) == {p \in 1..Len(lines) : lines[p].kind = "object"}

NthObject(lines, k) ==
    CHOOSE p \in ObjectPositions(lines) :
        Cardinality({q \in ObjectPositions(lines) : q <= p}) = k

PlaylistParsed ==
    /\ pc = "fetch_returned"
    /\ ~fetch_out.timeout
    /\ fetch_out.returncode = 0
    /\ \A p \in 1..Len(fetch_out.lines) : fetch_out.lines[p].kind # "scalar"

\* C6 as claimed: a well-formed record without an identifier gets the ordinal
\* 1 + (number of valid lines before it), as ordering index and in its
\* default title.
C6_CountsValidLines ==
    PlaylistParsed =>
        /\ Len(videos_to_process) = Cardinality(ObjectPositions(fetch_out.lines))
        /\ \A k \in 1..Len(videos_to_process) :
              LET data == fetch_out.lines[NthObject(fetch_out.lines, k)].data
              IN "id" \notin DOMAIN data =>
                    /\ videos_to_process[k].filename_playlist_index = k
                    /\ "title" \notin DOMAIN data =>
                          videos_to_process[k].title = UntitledTitle(k)

\* C6 amended: a record is returned for every well-formed line; one whose
\* line carries no playlist_index gets the 1-based position of its line in
\* the output stripped of surrounding whitespace (every line before it
\* counts, valid or not), and one that carries a playlist_index keeps it; the
\* ordering index is the number in the default title.  The list is empty
\* after a timeout, a non-zero exit or a JSON value that is not an object.
C6_CountsAllLines ==
    pc = "fetch_returned" =>
        IF PlaylistParsed
        THEN LET lines == StripLines(fetch_out.lines)
             IN /\ Len(videos_to_process) = Cardinality(ObjectPositions(lines))
                /\ \A k \in 1..Len(videos_to_process) :
                      LET p == NthObject(lines, k)
                          data == lines[p].data
                          ordinal == IF "playlist_index" \in DOMAIN data
                                     THEN data["playlist_index"][1]
                                     ELSE p
                      IN /\ videos_to_process[k].filename_playlist_index = ordinal
                         /\ "title" \notin DOMAIN data =>
                               videos_to_process[k].title = UntitledTitle(ordinal)
        ELSE videos_to_process = <<>>

\* a record without playlist_index that follows a line which is not valid
C6_Witness ==
    /\ PlaylistParsed
    /\ \E k \in 1..Len(videos_to_process) :
          /\ "playlist_index" \notin
                DOMAIN StripLines(fetch_out.lines)[NthObject(StripLines(fetch_out.lines), k)].data
          /\ videos_to_process[k].filename_playlist_index > k

\* C7 as claimed: a helper that reports a timeout has killed its subprocess.
C7_TimeoutKills == lastCall.outcome = "timeout" => ~lastCall.running

\* C8 as claimed: right after a URL submission and right after a click on the
\* clean button (one whose handler did not raise) every job is pending.
C8_ResetAlways == event \in {"submit", "fetch", "clean"} => AllPending

\* C8 amended: ... right after a click on the clean button while the download
\* directory exists and can be listed ...
C8_ResetIfDirExists ==
    (event \in {"submit", "fetch"} \/ (event = "clean" /\ dirExists)) => AllPending

\* the clean handler ran on an existing directory and could not delete a file
C8_Witness ==
    /\ event = "clean"
    /\ dirExists
    /\ files # {}
    /\ videos_to_process # <<>>
    /\ AllPending

\* C9 as claimed: between two script runs at most one video is processing.
C9_OneProcessing ==
    pc \in {"idle", "rerun"} => Cardinality(ProcessingVideos) <= 1

\* C10: the path of a completed job names a file that exists.
C10_CompletedFileExists ==
    \A k \in DOMAIN download_status :
        download_status[k].status = "completed" =>
            Exists(download_status[k].path, files)

\* a completed job, shown with its Download File button, whose file is there
C10_Witness ==
    /\ pc = "idle"
    /\ \E k \in DOMAIN download_status :
          /\ download_status[k].status = "completed"
          /\ download_status[k].path \in files

====
